---- MODULE Spec2Model ----
(***************************************************************************)
(* Model of the Ai-Coder client: the response normaliser                   *)
(* (cleanAndParseJson), the archive codec (downloadProjectZip /            *)
(* readProjectZip with its caller handleFileUpload) and the blueprint      *)
(* generator (generateProjectBlueprint / enhanceProjectBlueprint).         *)
(*                                                                         *)
(* Strings are sequences of code units.  A code unit is written as a TLA+  *)
(* string; in provider texts every unit is one character ("nbsp" stands    *)
(* for U+00A0, "bt" for the backquote), in archive paths a unit is a       *)
(* lexeme ("node_modules", ".", "/", "ts", ...) chosen so that every       *)
(* substring the code searches for is a whole number of units.             *)
(***************************************************************************)
EXTENDS Integers, Sequences, FiniteSets, TLC

VARIABLES
    \* ---- response normaliser (cleanAndParseJson) ----
    jpc,        \* "idle" | "returned" | "thrown"
    rawText,    \* the argument text: [absent |-> BOOLEAN, s |-> sequence of units]
    cleaned,    \* the local cleaned when the function ended
    jresult,    \* [ok, err, val]: the value returned or the Error thrown
    \* ---- archive codec (downloadProjectZip, readProjectZip, handleFileUpload) ----
    file,           \* the File at hand: [present, name, openable, entries, exported, source]
    zpc,            \* "idle" | "opening" (await loadAsync) | "loop" (for..of) |
                    \* "reading" (await entry.async)
    zidx,           \* position of the for..of loop in Object.entries(loadedZip.files)
    files,          \* readProjectZip's local files
    guessedName,    \* readProjectZip's local guessedName
    outcome,        \* how the last readProjectZip call ended: "none" | "returned" | "failed"
    warned,         \* console.warn calls of the last readProjectZip call
    alerted,        \* whether handleFileUpload's catch block ran for the last upload
    uploadedFiles,  \* FloatingInput state
    uploadName,     \* FloatingInput state
    firstDone,      \* whether a first upload has ended
    \* ---- blueprint generator (generateProjectBlueprint, enhanceProjectBlueprint) ----
    settings,       \* the AppSettings the calls receive
    rpc,            \* "Idle" | "AwaitingProvider" | "Success" | "Failed"
    rop,            \* the operation of the last call: "generate" | "enhance"
    rname,          \* its projectName argument
    provider,       \* the backend it called: "none" | "google" | "openrouter"
    credential,     \* the credential the remote call carried
    remoteCalls,    \* remote provider calls made by the last call
    response,       \* what the provider answered to it (NoResponse before it settles)
    result,         \* how it ended: [ok, blueprint, message]
    \* ---- App (history, displayed blueprint, error, load effect) ----
    apc,            \* "mounting" (before the load effect) | "running" | "crashed"
    loaded,         \* what localStorage held at mount: [history, settings]
    history,        \* App state history: [isArray, items, other]
    blueprint,      \* App state blueprint: [null, bp]
    error,          \* App state error: [null, msg]
    isLoading,      \* App state isLoading
    now,            \* the last reading of Date.now()
    currentView,    \* App state currentView: "home" | "history" | "settings"
    requests,       \* handleGenerate / handleEnhance calls that have not reached finally
    storage,        \* what localStorage holds now: [history, settings]
    \* ---- CodeCard (getLanguageClass) ----
    card            \* [filename, lang, syntaxHighlight, rendered, className]

jsonVars == <<jpc, rawText, cleaned, jresult>>

zipVars == <<file, zpc, zidx, files, guessedName, outcome, warned, alerted,
             uploadedFiles, uploadName, firstDone>>

genVars == <<settings, rpc, rop, rname, provider, credential, remoteCalls, response,
             result>>

appVars == <<apc, loaded, history, blueprint, error, isLoading, now, currentView,
             requests, storage>>

cardVars == <<card>>

vars == <<jpc, rawText, cleaned, jresult, file, zpc, zidx, files, guessedName,
          outcome, warned, alerted, uploadedFiles, uploadName, firstDone,
          settings, rpc, rop, rname, provider, credential, remoteCalls, response,
          result, apc, loaded, history, blueprint, error, isLoading, now, currentView,
          requests, storage, card>>

(***************************************************************************)
(* String helpers (methods of String.prototype)                            *)
(***************************************************************************)
Drop(s, n) == SubSeq(s, n + 1, Len(s))

Take(s, n) == SubSeq(s, 1, n)

StartsWith(s, p) == Len(p) <= Len(s) /\ Take(s, Len(p)) = p

EndsWith(s, p) == Len(p) <= Len(s) /\ Drop(s, Len(s) - Len(p)) = p

Includes(s, p) == \E i \in 0..(Len(s) - Len(p)) : SubSeq(s, i + 1, i + Len(p)) = p

\* Units String.prototype.trim removes: WhiteSpace and LineTerminator, which
\* include U+00A0 (and U+FEFF) besides the four JSON whitespace characters.
TrimSpace == {" ", "\n", "nbsp"}

RECURSIVE TrimStart(_)
TrimStart(s) ==
    IF s # <<>> /\ Head(s) \in TrimSpace THEN TrimStart(Tail(s)) ELSE s

RECURSIVE TrimEnd(_)
TrimEnd(s) ==
    IF s # <<>> /\ s[Len(s)] \in TrimSpace THEN TrimEnd(Take(s, Len(s) - 1)) ELSE s

Trim(s) == TrimEnd(TrimStart(s))

(***************************************************************************)
(* JSON.parse, on the units of the model's alphabet: whitespace, the digit *)
(* 1, brackets, braces, the comma and member lexemes.  A member lexeme is  *)
(* a whole "key":"value" pair of an object.  Over these units a JSON text  *)
(* is                                                                      *)
(*    ws value ws,                                                         *)
(*    value   ::= 1+ | [ ws ] | [ ws value ws ] | { ws } | { members }     *)
(*    members ::= ws member ws | ws member ws , members                    *)
(* (no quote or colon is in the alphabet outside a member lexeme).         *)
(***************************************************************************)
JsonSpace == {" ", "\n"}

NoValue == [t |-> "none", n |-> 0, e |-> <<>>]

JNum(k) == [t |-> "num", n |-> k, e |-> <<>>]

JArr(elems) == [t |-> "arr", n |-> 0, e |-> elems]

JObj == [t |-> "obj", n |-> 0, e |-> <<>>]

\* an object with the members ms, in source order
JObjOf(ms) == [t |-> "obj", n |-> 0, e |-> ms]

\* member lexemes: each is one "key":"value" pair
MemberProjectName == "\"projectName\":\"Evil\""

MemberDescription == "\"description\":\"d\""

MemberStructure == "\"structure\":\"s\""

MemberUseCustomApi == "\"useCustomApi\":true"

MemberOpenRouterApiKey == "\"openRouterApiKey\":\"key\""

MemberGoogleApiKey == "\"googleApiKey\":\"key\""

MemberAutoSaveFalse == "\"autoSave\":false"

MemberUnits ==
    {MemberProjectName, MemberDescription, MemberStructure,
     MemberUseCustomApi, MemberOpenRouterApiKey, MemberGoogleApiKey,
     MemberAutoSaveFalse}

MemberKey(u) ==
    CASE u = MemberProjectName -> "projectName"
      [] u = MemberDescription -> "description"
      [] u = MemberStructure -> "structure"
      [] u = MemberUseCustomApi -> "useCustomApi"
      [] u = MemberOpenRouterApiKey -> "openRouterApiKey"
      [] u = MemberGoogleApiKey -> "googleApiKey"
      [] u = MemberAutoSaveFalse -> "autoSave"

\* the member's value: the text of a string, "true" and "false" for the literals
MemberValue(u) ==
    CASE u = MemberProjectName -> "Evil"
      [] u = MemberDescription -> "d"
      [] u = MemberStructure -> "s"
      [] u = MemberUseCustomApi -> "true"
      [] u = MemberOpenRouterApiKey -> "key"
      [] u = MemberGoogleApiKey -> "key"
      [] u = MemberAutoSaveFalse -> "false"

\* value[key] of a parsed value: "undefined" when value is no object or has no
\* such member; of two members with one key JSON.parse keeps the last
RECURSIVE MemberOf(_, _)
MemberOf(ms, key) ==
    IF ms = <<>> THEN "undefined"
    ELSE IF MemberKey(ms[Len(ms)]) = key THEN MemberValue(ms[Len(ms)])
    ELSE MemberOf(SubSeq(ms, 1, Len(ms) - 1), key)

Get(value, key) == IF value.t = "obj" THEN MemberOf(value.e, key) ELSE "undefined"

PFail == [ok |-> FALSE, val |-> NoValue, rest |-> <<>>]

RECURSIVE SkipWs(_)
SkipWs(s) == IF s # <<>> /\ Head(s) \in JsonSpace THEN SkipWs(Tail(s)) ELSE s

\* the digits of a number literal: the value read so far and the rest
RECURSIVE ParseDigits(_, _)
ParseDigits(s, acc) ==
    IF s # <<>> /\ Head(s) = "1"
    THEN ParseDigits(Tail(s), 10 * acc + 1)
    ELSE [ok |-> TRUE, val |-> JNum(acc), rest |-> s]

\* members after the opening brace, up to and including the closing brace
RECURSIVE ParseMembers(_, _)
ParseMembers(s, acc) ==
    LET t == SkipWs(s) IN
    IF t = <<>> \/ Head(t) \notin MemberUnits THEN PFail
    ELSE LET u == SkipWs(Tail(t))
             ms == Append(acc, Head(t)) IN
         IF u = <<>> THEN PFail
         ELSE IF Head(u) = "}" THEN [ok |-> TRUE, val |-> JObjOf(ms), rest |-> Tail(u)]
         ELSE IF Head(u) = "," THEN ParseMembers(Tail(u), ms)
         ELSE PFail

RECURSIVE ParseValue(_)
ParseValue(s) ==
    IF s = <<>> THEN PFail
    ELSE IF Head(s) = "1" THEN ParseDigits(s, 0)
    ELSE IF Head(s) = "[" THEN
        LET t == SkipWs(Tail(s)) IN
        IF t # <<>> /\ Head(t) = "]"
        THEN [ok |-> TRUE, val |-> JArr(<<>>), rest |-> Tail(t)]
        ELSE LET r == ParseValue(t)
                 u == SkipWs(r.rest) IN
             IF r.ok /\ u # <<>> /\ Head(u) = "]"
             THEN [ok |-> TRUE, val |-> JArr(<<r.val>>), rest |-> Tail(u)]
             ELSE PFail
    ELSE IF Head(s) = "{" THEN
        LET t == SkipWs(Tail(s)) IN
        IF t # <<>> /\ Head(t) = "}"
        THEN [ok |-> TRUE, val |-> JObj, rest |-> Tail(t)]
        ELSE ParseMembers(t, <<>>)
    ELSE PFail

\* JSON.parse(s): [ok, val]; ok = FALSE stands for the SyntaxError thrown
JSONparse(s) ==
    LET r == ParseValue(SkipWs(s)) IN
    IF r.ok /\ SkipWs(r.rest) = <<>>
    THEN [ok |-> TRUE, val |-> r.val]
    ELSE [ok |-> FALSE, val |-> NoValue]

(***************************************************************************)
(* cleanAndParseJson                                                       *)
(***************************************************************************)
Fence == <<"bt", "bt", "bt">>

FenceJson == <<"bt", "bt", "bt", "j", "s", "o", "n">>

ErrEmpty == "Empty response from AI"

ErrInvalidJson == "AI generated invalid JSON. Please try again."

\* s.replace(/bt bt bt $/, empty): without the m flag $ matches at the end of
\* the input only
StripTrailingFence(s) ==
    IF EndsWith(s, Fence) THEN Take(s, Len(s) - Len(Fence)) ELSE s

\* mutant: the trailing marker is never removed
StripFencesKeepTrailing(s) ==
    IF StartsWith(s, FenceJson) THEN Drop(s, Len(FenceJson))
    ELSE IF StartsWith(s, Fence) THEN Drop(s, Len(Fence))
    ELSE s

\* mutant: every occurrence of the marker is removed, not only the outer two
RECURSIVE RemoveAllFences(_)
RemoveAllFences(s) ==
    IF s = <<>> THEN <<>>
    ELSE IF StartsWith(s, Fence) THEN RemoveAllFences(Drop(s, Len(Fence)))
    ELSE <<Head(s)>> \o RemoveAllFences(Tail(s))

StripFencesEverywhere(s) ==
    IF StartsWith(s, FenceJson) THEN RemoveAllFences(Drop(s, Len(FenceJson)))
    ELSE IF StartsWith(s, Fence) THEN RemoveAllFences(s)
    ELSE s

\* the if / else-if of lines 46-50, applied to the trimmed text
StripFences(s) ==
    IF StartsWith(s, FenceJson) THEN StripTrailingFence(Drop(s, Len(FenceJson)))
    ELSE IF StartsWith(s, Fence) THEN StripTrailingFence(Drop(s, Len(Fence)))
    ELSE s

\* the local cleaned at the JSON.parse call (<<>> when the guard threw first)
CleanedOf(text) ==
    IF text.absent \/ text.s = <<>> THEN <<>> ELSE StripFences(Trim(text.s))

\* mutant: a parse failure yields an empty object instead of an Error
CleanAndParseJsonDefaulting(text) ==
    IF text.absent \/ text.s = <<>>
    THEN [ok |-> TRUE, err |-> "", val |-> JObj]
    ELSE LET p == JSONparse(CleanedOf(text)) IN
         IF p.ok THEN [ok |-> TRUE, err |-> "", val |-> p.val]
         ELSE [ok |-> TRUE, err |-> "", val |-> JObj]

cleanAndParseJson(text) ==
    IF text.absent \/ text.s = <<>>
    THEN [ok |-> FALSE, err |-> ErrEmpty, val |-> NoValue]
    ELSE LET p == JSONparse(CleanedOf(text)) IN
         IF p.ok THEN [ok |-> TRUE, err |-> "", val |-> p.val]
         ELSE [ok |-> FALSE, err |-> ErrInvalidJson, val |-> NoValue]

(***************************************************************************)
(* Inputs of the normaliser                                                *)
(***************************************************************************)
MaxBody == 3

BodyUnits == {"[", "]", "{", "}", "1", " ", "bt", "nbsp"}

SeqsUpTo(S, n) == UNION {[1..k -> S] : k \in 0..n}

Bodies == SeqsUpTo(BodyUnits, MaxBody)

\* language tags a model may put after the opening marker; <<>> is no tag
Tags == {<<>>, <<"j", "s", "o", "n">>, <<"j", "s">>, <<"J", "S", "O", "N">>,
         <<"j", "s", "o", "n", "c">>}

\* marker, tag, newline, body, newline, marker
Fenced(tag, body) == Fence \o tag \o <<"\n">> \o body \o <<"\n">> \o Fence

Present(s) == [absent |-> FALSE, s |-> s]

Absent == [absent |-> TRUE, s |-> <<>>]

RawTexts ==
    {Absent}
    \cup {Present(b) : b \in Bodies}
    \cup {Present(Fenced(tag, b)) : tag \in Tags, b \in Bodies}
    \cup {Present(<<" ">> \o Fenced(<<"j", "s", "o", "n">>, b) \o <<"\n">>) : b \in Bodies}

NoResult == [ok |-> FALSE, err |-> "", val |-> NoValue]

JsonInit ==
    /\ jpc = "idle"
    /\ rawText \in RawTexts
    /\ cleaned = <<>>
    /\ jresult = NoResult

\* one call cleanAndParseJson(rawText) that returns
CallReturns ==
    /\ jpc = "idle"
    /\ cleanAndParseJson(rawText).ok
    /\ jpc' = "returned"
    /\ cleaned' = CleanedOf(rawText)
    /\ jresult' = cleanAndParseJson(rawText)
    /\ UNCHANGED rawText
    /\ UNCHANGED <<zipVars, genVars, appVars, cardVars>>

\* one call cleanAndParseJson(rawText) that throws
CallThrows ==
    /\ jpc = "idle"
    /\ ~cleanAndParseJson(rawText).ok
    /\ jpc' = "thrown"
    /\ cleaned' = CleanedOf(rawText)
    /\ jresult' = cleanAndParseJson(rawText)
    /\ UNCHANGED rawText
    /\ UNCHANGED <<zipVars, genVars, appVars, cardVars>>

JsonNext == CallReturns \/ CallThrows

JsonIdle ==
    /\ jpc = "idle"
    /\ rawText = Absent
    /\ cleaned = <<>>
    /\ jresult = NoResult

(***************************************************************************)
(* Archive codec: paths, extensions, admission                             *)
(***************************************************************************)
\* String.prototype.toLowerCase on one unit
LowerUnit(u) ==
    CASE u = "TS" -> "ts"
      [] u = "Makefile" -> "makefile"
      [] u = "Dockerfile" -> "dockerfile"
      [] u = "Jenkinsfile" -> "jenkinsfile"
      [] u = "DS_Store" -> "ds_store"
      [] OTHER -> u

LowerSeq(s) == [i \in 1..Len(s) |-> LowerUnit(s[i])]

\* index of the last "." of s, 0 when there is none
RECURSIVE LastDot(_)
LastDot(s) ==
    IF s = <<>> THEN 0
    ELSE IF s[Len(s)] = "." THEN Len(s)
    ELSE LastDot(Take(s, Len(s) - 1))

\* '.' + relativePath.split('.').pop()?.toLowerCase(): split always yields a
\* last piece, the whole path when it holds no "."
PathExt(relativePath) ==
    <<".">> \o LowerSeq(Drop(relativePath, LastDot(relativePath)))

\* the includes() chain of types.ts
ExcludedSubstrings ==
    {<<"node_modules">>, <<".", "git">>, <<"dist">>, <<"build">>, <<".", "next">>,
     <<"__pycache__">>, <<".", "DS_Store">>}

IsExcluded(relativePath) ==
    \E x \in ExcludedSubstrings : Includes(relativePath, x)

\* the includes() chain of the second copy of readProjectZip (it has no '.next')
LegacyExcludedSubstrings ==
    {<<"node_modules">>, <<".", "git">>, <<"dist">>, <<"build">>,
     <<"__pycache__">>, <<".", "DS_Store">>}

LegacyIsExcluded(relativePath) ==
    \E x \in LegacyExcludedSubstrings : Includes(relativePath, x)

SingleExtensions ==
    {"js", "jsx", "ts", "tsx", "html", "css", "scss", "sass", "less",
     "json", "xml", "yaml", "yml", "toml",
     "py", "rb", "go", "rs", "java", "kt", "swift", "php",
     "c", "cpp", "h", "hpp", "ino", "cs",
     "md", "txt", "sh", "bat",
     "vue", "svelte", "astro",
     "ini"}

validExtensions ==
    {<<".", e>> : e \in SingleExtensions}
    \cup {<<".", "env", ".", "example">>, <<".", "git", "ignore">>}

LegacyValidExtensions ==
    {<<".", e>> : e \in {"js", "jsx", "ts", "tsx", "html", "css", "json", "py", "md",
                          "txt", "cpp", "c", "h", "hpp", "ino", "ini", "java", "dart",
                          "go", "rs", "php", "vue", "svelte"}}

isExactMatch(relativePath) == PathExt(relativePath) \in validExtensions

SpecialNames == {"Makefile", "Dockerfile", "Jenkinsfile"}

isSpecialFile(relativePath) ==
    \E n \in SpecialNames : EndsWith(relativePath, <<n>>)

\* mutant: only the allow-list admits
PassesExactMatchOnly(relativePath) == isExactMatch(relativePath)

\* the negation of the test that guards the continue at types.ts:96
PassesExtensionCheck(relativePath) ==
    isExactMatch(relativePath) \/ isSpecialFile(relativePath)

LegacyPassesExtensionCheck(relativePath) ==
    \/ PathExt(relativePath) \in LegacyValidExtensions
    \/ EndsWith(relativePath, <<"Makefile">>)
    \/ EndsWith(relativePath, <<"Dockerfile">>)
    \/ EndsWith(relativePath, <<".", "env", ".", "example">>)

\* mutant: only the emptiness test
IsEmptyOnly(content) == content = <<>>

\* !content || content.includes('\0')
IsEmptyOrBinary(content) == content = <<>> \/ Includes(content, <<"NUL">>)

getLanguageFromExt(ext) ==
    IF ext \in {<<".", "ts">>, <<".", "tsx">>} THEN "typescript"
    ELSE IF ext \in {<<".", "js">>, <<".", "jsx">>} THEN "javascript"
    ELSE IF ext = <<".", "py">> THEN "python"
    ELSE IF ext \in {<<".", "css">>, <<".", "scss">>, <<".", "sass">>, <<".", "less">>}
        THEN "css"
    ELSE IF ext = <<".", "json">> THEN "json"
    ELSE IF ext = <<".", "html">> THEN "html"
    ELSE IF ext \in {<<".", "cpp">>, <<".", "c">>, <<".", "h">>, <<".", "hpp">>,
                     <<".", "ino">>, <<".", "cs">>, <<".", "java">>} THEN "cpp"
    ELSE IF ext \in {<<".", "yaml">>, <<".", "yml">>, <<".", "toml">>, <<".", "ini">>}
        THEN "ini"
    ELSE IF ext = <<".", "xml">> THEN "xml"
    ELSE IF ext = <<".", "md">> THEN "markdown"
    ELSE IF ext = <<".", "sh">> THEN "bash"
    ELSE "plaintext"

LegacyGetLanguageFromExt(ext) ==
    IF ext \in {<<".", "ts">>, <<".", "tsx">>} THEN "typescript"
    ELSE IF ext \in {<<".", "js">>, <<".", "jsx">>} THEN "javascript"
    ELSE IF ext = <<".", "py">> THEN "python"
    ELSE IF ext = <<".", "css">> THEN "css"
    ELSE IF ext = <<".", "json">> THEN "json"
    ELSE IF ext = <<".", "html">> THEN "html"
    ELSE IF ext \in {<<".", "cpp">>, <<".", "c">>, <<".", "h">>, <<".", "hpp">>,
                     <<".", "ino">>} THEN "cpp"
    ELSE IF ext = <<".", "ini">> THEN "ini"
    ELSE "plaintext"

\* the object pushed at types.ts:105-109
FileRecord(relativePath, content) ==
    [path |-> relativePath, content |-> content,
     language |-> getLanguageFromExt(PathExt(relativePath))]

LegacyFileRecord(relativePath, content) ==
    [path |-> relativePath, content |-> content,
     language |-> LegacyGetLanguageFromExt(PathExt(relativePath))]

(***************************************************************************)
(* Archives.  An archive is the sequence Object.entries(zip.files): each   *)
(* entry has a path (the key), the dir flag, its text and whether          *)
(* entry.async('string') succeeds on it.                                   *)
(***************************************************************************)
Entry(path, content, readable) ==
    [path |-> path, dir |-> FALSE, content |-> content, readable |-> readable]

DirEntry(path) == [path |-> path, dir |-> TRUE, content |-> <<>>, readable |-> TRUE]

\* index of the entry of archive a keyed path, 0 when there is none
RECURSIVE IndexOfPath(_, _)
IndexOfPath(a, path) ==
    IF a = <<>> THEN 0
    ELSE IF a[Len(a)].path = path THEN Len(a)
    ELSE IndexOfPath(Take(a, Len(a) - 1), path)

\* JSZip folderAdd: the folder entries for every parent of path that the
\* archive lacks, outermost first (createFolders is on by default)
RECURSIVE AddFolders(_, _, _)
AddFolders(a, path, i) ==
    IF i > Len(path) THEN a
    ELSE IF path[i] = "/" /\ i > 1 /\ IndexOfPath(a, Take(path, i)) = 0
    THEN AddFolders(Append(a, DirEntry(Take(path, i))), path, i + 1)
    ELSE AddFolders(a, path, i + 1)

\* zip.file(path, content): a key already present keeps its place
ZipFile(a, path, content) ==
    LET b == AddFolders(a, path, 1)
        k == IndexOfPath(b, path) IN
    IF k = 0 THEN Append(b, Entry(path, content, TRUE))
    ELSE [b EXCEPT ![k] = Entry(path, content, TRUE)]

\* mutant: slice(1) without the startsWith test
NormalizePathAlwaysSlice(path) == Drop(path, 1)

\* file.path.startsWith('/') ? file.path.slice(1) : file.path
NormalizePath(path) == IF StartsWith(path, <<"/">>) THEN Drop(path, 1) ELSE path

\* files.forEach(...) of downloadProjectZip, from the i-th file on
RECURSIVE ZipAll(_, _, _)
ZipAll(a, fs, i) ==
    IF i > Len(fs) THEN a
    ELSE ZipAll(ZipFile(a, NormalizePath(fs[i].path), fs[i].content), fs, i + 1)

\* file.name.replace('.zip', ''): the first occurrence only
RECURSIVE ReplaceFirst(_, _)
ReplaceFirst(s, p) ==
    IF s = <<>> THEN <<>>
    ELSE IF StartsWith(s, p) THEN Drop(s, Len(p))
    ELSE <<Head(s)>> \o ReplaceFirst(Tail(s), p)

GuessName(name) == ReplaceFirst(name, <<".", "zip">>)

NoFile == [present |-> FALSE, name |-> <<>>, openable |-> FALSE, entries |-> <<>>,
           exported |-> FALSE, source |-> <<>>, projectName |-> <<>>]

\* mutant: the blob is delivered as <projectName>.zip
ExportedFileZipSuffixOnly(projectName, fs) ==
    [present |-> TRUE, name |-> projectName \o <<".", "zip">>,
     openable |-> TRUE, entries |-> ZipAll(<<>>, fs, 1), exported |-> TRUE,
     source |-> fs, projectName |-> projectName]

\* the blob saveAs delivers for downloadProjectZip(projectName, fs)
ExportedFile(projectName, fs) ==
    [present |-> TRUE, name |-> projectName \o <<"-blueprint", ".", "zip">>,
     openable |-> TRUE, entries |-> ZipAll(<<>>, fs, 1), exported |-> TRUE,
     source |-> fs, projectName |-> projectName]

ForeignFile(name, openable, entries) ==
    [present |-> TRUE, name |-> name, openable |-> openable,
     entries |-> IF openable THEN entries ELSE <<>>, exported |-> FALSE,
     source |-> <<>>, projectName |-> <<>>]

(***************************************************************************)
(* Inputs of the archive codec                                             *)
(***************************************************************************)
MaxFiles == 2

MaxEntries == 2

Texts == {<<"x">>, <<>>, <<"x", "NUL">>}

\* paths built from a directory, a stem and a suffix: every allow-list
\* extension occurs, alone and next to an excluded substring
WideDirs == {<<>>, <<"src", "/">>, <<"node_modules", "/">>}

WideStems == {<<"a">>, <<"my", "build">>}

WideSuffixes ==
    validExtensions \cup {<<>>, <<".", "png">>, <<".", "TS">>, <<".", "test", ".", "ts">>}

ExtraPaths ==
    {<<"Makefile">>, <<"src", "/", "Dockerfile">>, <<"Jenkinsfile">>,
     <<"Makefile", ".", "png">>, <<"makefile">>, <<"txt">>, <<"md">>, <<"a", ".">>,
     <<".", "env", ".", "example">>, <<".", "git", "ignore">>, <<".", "ts">>,
     <<".", "git", "/", "config">>, <<".", "next", "/", "a", ".", "js">>,
     <<"dist", "/", "a", ".", "js">>, <<"__pycache__", "/", "a", ".", "py">>,
     <<".", "DS_Store">>, <<"a", ".", "d", "/", "txt">>, <<"a", ".", "d", "/", "Makefile">>}

WidePaths ==
    {d \o st \o su : d \in WideDirs, st \in WideStems, su \in WideSuffixes}
    \cup ExtraPaths

EntryVariants(path) ==
    {Entry(path, c, TRUE) : c \in Texts} \cup {Entry(path, <<>>, FALSE)}

WideEntries == UNION {EntryVariants(p) : p \in WidePaths}

NarrowEntries ==
    {Entry(<<"src", "/", "a", ".", "ts">>, <<"x">>, TRUE),
     Entry(<<"src", "/", "a", ".", "ts">>, <<>>, FALSE),
     Entry(<<"b", ".", "md">>, <<"x">>, TRUE),
     Entry(<<"b", ".", "md">>, <<"x", "NUL">>, TRUE),
     Entry(<<"b", ".", "md">>, <<>>, TRUE),
     Entry(<<"b", ".", "md">>, <<>>, FALSE),
     Entry(<<"node_modules", "/", "x", ".", "js">>, <<"x">>, TRUE),
     Entry(<<"image", ".", "png">>, <<"x">>, TRUE),
     Entry(<<"Makefile">>, <<"x">>, TRUE),
     DirEntry(<<"src", "/">>)}

\* Object keys are unique
UniquePaths(a) == \A i, j \in 1..Len(a) : a[i].path = a[j].path => i = j

NarrowArchives == {a \in SeqsUpTo(NarrowEntries, MaxEntries) : UniquePaths(a)}

\* the archive of the decode scenario: a valid text, an excluded path, a
\* disallowed extension and an entry with a null byte
ScenarioArchive ==
    <<Entry(<<"src", "/", "a", ".", "ts">>, <<"x">>, TRUE),
      Entry(<<"node_modules", "/", "x", ".", "js">>, <<"x">>, TRUE),
      Entry(<<"image", ".", "png">>, <<"x">>, TRUE),
      Entry(<<"b", ".", "md">>, <<"x", "NUL">>, TRUE)>>

\* an unreadable entry between two good ones
FailureArchive ==
    <<Entry(<<"b", ".", "md">>, <<"x">>, TRUE),
      Entry(<<"src", "/", "a", ".", "ts">>, <<>>, FALSE),
      Entry(<<"Makefile">>, <<"x">>, TRUE)>>

StdName == <<"proj", ".", "zip">>

FileNames ==
    {StdName, <<"proj">>, <<"a", ".", "zip", ".", "zip">>,
     <<"my", ".", "zip", "per", ".", "zip">>, <<"proj", ".", "ZIP">>}

FirstFiles ==
    {ForeignFile(StdName, TRUE, <<e>>) : e \in WideEntries}
    \cup {ForeignFile(StdName, TRUE, a) : a \in NarrowArchives}
    \cup {ForeignFile(n, TRUE, ScenarioArchive) : n \in FileNames}
    \cup {ForeignFile(StdName, TRUE, FailureArchive)}
    \cup {ForeignFile(n, FALSE, <<>>) : n \in FileNames}

LaterFiles ==
    {ForeignFile(StdName, FALSE, <<>>), ForeignFile(<<"proj">>, FALSE, <<>>),
     ForeignFile(StdName, TRUE, <<>>), ForeignFile(<<"proj">>, TRUE, ScenarioArchive),
     ForeignFile(StdName, TRUE, <<Entry(<<"b", ".", "md">>, <<>>, FALSE)>>)}

ExportPaths ==
    {<<"a", ".", "ts">>, <<"/", "a", ".", "ts">>, <<"/", "/", "a", ".", "ts">>,
     <<"src", "/", "a", ".", "ts">>,
     <<"a", ".", "png">>, <<"my", "build", ".", "ts">>, <<"Makefile">>}

ExportRecords ==
    {[path |-> p, content |-> c, language |-> "typescript"] :
        p \in ExportPaths, c \in Texts}

FileLists == {fs \in SeqsUpTo(ExportRecords, MaxFiles) : UniquePaths(fs)}

ProjectNames == {<<"proj">>, <<"my", ".", "zip">>}

(***************************************************************************)
(* downloadProjectZip, handleFileUpload and readProjectZip                 *)
(***************************************************************************)
ZipInit ==
    /\ file = NoFile
    /\ zpc = "idle"
    /\ zidx = 0
    /\ files = <<>>
    /\ guessedName = <<>>
    /\ outcome = "none"
    /\ warned = 0
    /\ alerted = FALSE
    /\ uploadedFiles = <<>>
    /\ uploadName = <<>>
    /\ firstDone = FALSE

\* downloadProjectZip(projectName, fs): the browser saves the blob
DownloadProjectZip ==
    /\ zpc = "idle" /\ ~file.present /\ ~firstDone
    /\ \E projectName \in ProjectNames, fs \in FileLists :
          file' = ExportedFile(projectName, fs)
    /\ UNCHANGED <<zpc, zidx, files, guessedName, outcome, warned, alerted,
                   uploadedFiles, uploadName, firstDone>>
    /\ UNCHANGED <<jsonVars, genVars, appVars, cardVars>>

\* readProjectZip(file) up to its first await
StartRead ==
    /\ zpc' = "opening"
    /\ zidx' = 0
    /\ files' = <<>>
    /\ guessedName' = <<>>
    /\ outcome' = "none"
    /\ warned' = 0
    /\ alerted' = FALSE
    /\ UNCHANGED <<uploadedFiles, uploadName, firstDone>>
    /\ UNCHANGED <<jsonVars, genVars, appVars, cardVars>>

\* handleFileUpload on the archive downloadProjectZip delivered
UploadExported ==
    /\ zpc = "idle" /\ file.present /\ file.exported /\ ~firstDone
    /\ file' = file
    /\ StartRead

\* handleFileUpload on a file from elsewhere; the first pick is either the
\* downloaded archive or a foreign one
UploadForeign ==
    /\ zpc = "idle"
    /\ firstDone \/ ~file.present
    /\ file' \in (IF firstDone THEN LaterFiles ELSE FirstFiles)
    /\ StartRead

\* await zip.loadAsync(file) resolves; files = [], guessedName is computed
LoadAsyncResolves ==
    /\ zpc = "opening" /\ file.openable
    /\ zpc' = "loop"
    /\ zidx' = 1
    /\ files' = <<>>
    /\ guessedName' = GuessName(file.name)
    /\ UNCHANGED <<file, outcome, warned, alerted, uploadedFiles, uploadName, firstDone>>
    /\ UNCHANGED <<jsonVars, genVars, appVars, cardVars>>

\* mutant: the catch block also clears the form
LoadAsyncRejectsAndClears ==
    /\ zpc = "opening" /\ ~file.openable
    /\ zpc' = "idle"
    /\ outcome' = "failed"
    /\ alerted' = TRUE
    /\ firstDone' = TRUE
    /\ uploadedFiles' = <<>>
    /\ uploadName' = <<>>
    /\ UNCHANGED <<file, zidx, files, guessedName, warned>>
    /\ UNCHANGED <<jsonVars, genVars, appVars, cardVars>>

\* await zip.loadAsync(file) rejects: readProjectZip rejects, handleFileUpload's
\* catch block alerts
LoadAsyncRejects ==
    /\ zpc = "opening" /\ ~file.openable
    /\ zpc' = "idle"
    /\ outcome' = "failed"
    /\ alerted' = TRUE
    /\ firstDone' = TRUE
    /\ UNCHANGED <<file, zidx, files, guessedName, warned, uploadedFiles, uploadName>>
    /\ UNCHANGED <<jsonVars, genVars, appVars, cardVars>>

InLoop == zpc = "loop" /\ zidx <= Len(file.entries)

Cur == file.entries[zidx]

Continue ==
    /\ zidx' = zidx + 1
    /\ UNCHANGED <<file, zpc, guessedName, outcome, alerted, uploadedFiles,
                   uploadName, firstDone>>
    /\ UNCHANGED <<jsonVars, genVars, appVars, cardVars>>

\* if (entry.dir) continue
SkipDirectory ==
    /\ InLoop /\ Cur.dir
    /\ UNCHANGED <<files, warned>>
    /\ Continue

\* the includes() chain
SkipExcludedPath ==
    /\ InLoop /\ ~Cur.dir /\ IsExcluded(Cur.path)
    /\ UNCHANGED <<files, warned>>
    /\ Continue

\* if (!isExactMatch && !isSpecialFile) continue
SkipExtension ==
    /\ InLoop /\ ~Cur.dir /\ ~IsExcluded(Cur.path) /\ ~PassesExtensionCheck(Cur.path)
    /\ UNCHANGED <<files, warned>>
    /\ Continue

Admitted == InLoop /\ ~Cur.dir /\ ~IsExcluded(Cur.path) /\ PassesExtensionCheck(Cur.path)

\* the loop is suspended at await entry.async('string') of the entry at zidx
Reading == zpc = "reading"

\* entry.async('string') is called on the admitted entry and awaited
SuspendAtRead ==
    /\ zpc' = "reading"
    /\ UNCHANGED <<file, zidx, files, guessedName, outcome, warned, alerted,
                   uploadedFiles, uploadName, firstDone>>
    /\ UNCHANGED <<jsonVars, genVars, appVars, cardVars>>

StartEntryRead ==
    /\ Admitted
    /\ SuspendAtRead

\* the loop resumes after the await and goes on to the next entry
Resume ==
    /\ zpc' = "loop"
    /\ zidx' = zidx + 1
    /\ UNCHANGED <<file, guessedName, outcome, alerted, uploadedFiles, uploadName,
                   firstDone>>
    /\ UNCHANGED <<jsonVars, genVars, appVars, cardVars>>

\* mutant: the record is put in front of the list
ReadAndUnshift ==
    /\ Reading /\ Cur.readable /\ ~IsEmptyOrBinary(Cur.content)
    /\ files' = <<FileRecord(Cur.path, Cur.content)>> \o files
    /\ UNCHANGED warned
    /\ Resume

\* await entry.async('string') resolves with text that passes the guard
ReadAndPush ==
    /\ Reading /\ Cur.readable /\ ~IsEmptyOrBinary(Cur.content)
    /\ files' = Append(files, FileRecord(Cur.path, Cur.content))
    /\ UNCHANGED warned
    /\ Resume

\* await entry.async('string') resolves with empty text or text with a null byte
ReadAndSkip ==
    /\ Reading /\ Cur.readable /\ IsEmptyOrBinary(Cur.content)
    /\ UNCHANGED <<files, warned>>
    /\ Resume

\* mutant: a failed read is not caught and ends the whole call
ReadThrowsUncaught ==
    /\ Reading /\ ~Cur.readable
    /\ zpc' = "idle"
    /\ outcome' = "failed"
    /\ alerted' = TRUE
    /\ firstDone' = TRUE
    /\ UNCHANGED <<file, zidx, files, guessedName, warned, uploadedFiles, uploadName>>
    /\ UNCHANGED <<jsonVars, genVars, appVars, cardVars>>

\* await entry.async('string') rejects: caught, console.warn, next entry
ReadThrows ==
    /\ Reading /\ ~Cur.readable
    /\ warned' = warned + 1
    /\ UNCHANGED files
    /\ Resume

\* return { files, guessedName }; handleFileUpload stores both
ReturnFiles ==
    /\ zpc = "loop" /\ zidx > Len(file.entries)
    /\ zpc' = "idle"
    /\ outcome' = "returned"
    /\ uploadedFiles' = files
    /\ uploadName' = guessedName
    /\ firstDone' = TRUE
    /\ UNCHANGED <<file, zidx, files, guessedName, warned, alerted>>
    /\ UNCHANGED <<jsonVars, genVars, appVars, cardVars>>

ZipNext ==
    \/ DownloadProjectZip
    \/ UploadExported
    \/ UploadForeign
    \/ LoadAsyncResolves
    \/ LoadAsyncRejects
    \/ SkipDirectory
    \/ SkipExcludedPath
    \/ SkipExtension
    \/ StartEntryRead
    \/ ReadAndPush
    \/ ReadAndSkip
    \/ ReadThrows
    \/ ReturnFiles

(***************************************************************************)
(* The second copy of readProjectZip in the repository (part_000): a       *)
(* shorter includes() chain and allow-list, no content guard.              *)
(***************************************************************************)
LegacySkipExcludedPath ==
    /\ InLoop /\ ~Cur.dir /\ LegacyIsExcluded(Cur.path)
    /\ UNCHANGED <<files, warned>>
    /\ Continue

LegacySkipExtension ==
    /\ InLoop /\ ~Cur.dir /\ ~LegacyIsExcluded(Cur.path)
    /\ ~LegacyPassesExtensionCheck(Cur.path)
    /\ UNCHANGED <<files, warned>>
    /\ Continue

LegacyAdmitted ==
    InLoop /\ ~Cur.dir /\ ~LegacyIsExcluded(Cur.path) /\ LegacyPassesExtensionCheck(Cur.path)

LegacyStartEntryRead ==
    /\ LegacyAdmitted
    /\ SuspendAtRead

LegacyReadAndPush ==
    /\ Reading /\ Cur.readable
    /\ files' = Append(files, LegacyFileRecord(Cur.path, Cur.content))
    /\ UNCHANGED warned
    /\ Resume

LegacyReadThrows ==
    /\ Reading /\ ~Cur.readable
    /\ warned' = warned + 1
    /\ UNCHANGED files
    /\ Resume

LegacyZipNext ==
    \/ DownloadProjectZip
    \/ UploadExported
    \/ UploadForeign
    \/ LoadAsyncResolves
    \/ LoadAsyncRejects
    \/ SkipDirectory
    \/ LegacySkipExcludedPath
    \/ LegacySkipExtension
    \/ LegacyStartEntryRead
    \/ LegacyReadAndPush
    \/ LegacyReadThrows
    \/ ReturnFiles

(***************************************************************************)
(* Blueprint generator: generateProjectBlueprint, enhanceProjectBlueprint, *)
(* callOpenRouter, handleGeminiError.  Error messages are sequences of     *)
(* lexemes, so that msg.includes("429") is a search for a unit.            *)
(***************************************************************************)
\* const defaultApiKey = "AIza..."
defaultApiKey == <<"AIzaSy-shared">>

ErrNoOpenRouterKey == <<"OpenRouter API Key is missing in settings.">>

ErrNoApiKey == <<"No API Key available.">>

ErrQuota ==
    <<"System quota exceeded. Please add your own free Google API Key in Settings > AI Config.">>

ErrNoOpenRouterContent == <<"No content received from OpenRouter.">>

\* the two functions word the missing-text error differently
ErrNoGeminiText(op) ==
    IF op = "generate" THEN <<"No response generated from Gemini.">>
    ELSE <<"No response from Gemini.">>

\* settings.googleApiKey || defaultApiKey
GoogleApiKey(s) == IF s.googleApiKey # <<>> THEN s.googleApiKey ELSE defaultApiKey

\* mutant: the OpenRouter key is not tested before the call
MissingCredentialGoogleOnly(s) ==
    IF s.useCustomApi THEN FALSE ELSE GoogleApiKey(s) = <<>>

\* the two fail-fast tests: !settings.openRouterApiKey, !apiKey
MissingCredential(s) ==
    IF s.useCustomApi THEN s.openRouterApiKey = <<>> ELSE GoogleApiKey(s) = <<>>

PreconditionMessage(s) ==
    IF s.useCustomApi THEN ErrNoOpenRouterKey ELSE ErrNoApiKey

\* the credential the remote call carries
CredentialSent(s) ==
    IF s.useCustomApi THEN s.openRouterApiKey ELSE GoogleApiKey(s)

\* handleGeminiError(error): the Error it throws for message msg
handleGeminiError(msg) ==
    IF \/ Includes(msg, <<"429">>)
       \/ Includes(msg, <<"RESOURCE_EXHAUSTED">>)
       \/ Includes(msg, <<"quota">>)
    THEN ErrQuota
    ELSE <<"AI Error: ">> \o msg

NoBlueprint ==
    [projectName |-> <<>>, description |-> "undefined", structure |-> "undefined",
     files |-> "undefined"]

\* mutant: the parsed object is spread over the result, so that a projectName
\* member of the response replaces the caller's
BlueprintSpreadingData(projectName, data) ==
    [projectName |-> IF Get(data, "projectName") = "undefined" THEN projectName
                     ELSE <<Get(data, "projectName")>>,
     description |-> Get(data, "description"),
     structure |-> Get(data, "structure"),
     files |-> Get(data, "files")]

\* { projectName, description: data.description, structure: data.structure,
\*   files: data.files }: the caller's name and three members of the parsed value
Blueprint(projectName, data) ==
    [projectName |-> projectName,
     description |-> Get(data, "description"),
     structure |-> Get(data, "structure"),
     files |-> Get(data, "files")]

Ok(bp) == [ok |-> TRUE, blueprint |-> bp, message |-> <<>>]

Err(msg) == [ok |-> FALSE, blueprint |-> NoBlueprint, message |-> msg]

\* mutant: a 429 status is mapped to the quota message on OpenRouter too
OpenRouterOutcomeWithHint(projectName, resp) ==
    IF resp.kind = "throw" THEN Err(handleGeminiError(resp.message))
    ELSE IF ~resp.ok
        THEN Err(handleGeminiError(<<"OpenRouter API Error: ", resp.status, " - ">>
                                   \o resp.message))
    ELSE IF resp.text.absent \/ resp.text.s = <<>> THEN Err(ErrNoOpenRouterContent)
    ELSE LET r == cleanAndParseJson(resp.text) IN
         IF r.ok THEN Ok(Blueprint(projectName, r.val)) ELSE Err(<<r.err>>)

\* callOpenRouter after fetch settled, and the return that follows it
OpenRouterOutcome(projectName, resp) ==
    IF resp.kind = "throw" THEN Err(resp.message)
    ELSE IF ~resp.ok
        THEN Err(<<"OpenRouter API Error: ", resp.status, " - ">> \o resp.message)
    ELSE IF resp.text.absent \/ resp.text.s = <<>> THEN Err(ErrNoOpenRouterContent)
    ELSE LET r == cleanAndParseJson(resp.text) IN
         IF r.ok THEN Ok(Blueprint(projectName, r.val)) ELSE Err(<<r.err>>)

\* the try / catch around ai.models.generateContent
GoogleOutcome(op, projectName, resp) ==
    IF resp.kind = "throw" THEN Err(handleGeminiError(resp.message))
    ELSE IF resp.text.absent \/ resp.text.s = <<>>
        THEN Err(handleGeminiError(ErrNoGeminiText(op)))
    ELSE LET r == cleanAndParseJson(resp.text) IN
         IF r.ok THEN Ok(Blueprint(projectName, r.val))
         ELSE Err(handleGeminiError(<<r.err>>))

(***************************************************************************)
(* Inputs of the generator                                                 *)
(***************************************************************************)
Keys == {<<>>, <<"key">>}

SettingsSet ==
    [useCustomApi : BOOLEAN, openRouterApiKey : Keys, googleApiKey : Keys,
     autoSave : BOOLEAN]

ProjectNameArgs == {<<"Todo App">>, <<"p2">>}

Operations == {"generate", "enhance"}

ResponseTexts ==
    {Absent, Present(<<>>), Present(<<"{", "}">>), Present(<<"{">>),
     Present(<<"1">>),
     Present(<<"{", MemberProjectName, "}">>),
     Present(<<"{", MemberDescription, ",", MemberProjectName, ",", MemberStructure, "}">>),
     Present(Fenced(<<"j", "s", "o", "n">>, <<"{", MemberDescription, "}">>)),
     Present(Fenced(<<"j", "s">>, <<"{", "}">>))}

NoResponse ==
    [kind |-> "none", ok |-> FALSE, status |-> "", message |-> <<>>, text |-> Absent]

Resolved(text) ==
    [kind |-> "resolve", ok |-> TRUE, status |-> "200", message |-> <<>>, text |-> text]

HttpError(status, body) ==
    [kind |-> "resolve", ok |-> FALSE, status |-> status, message |-> body,
     text |-> Absent]

Thrown(msg) ==
    [kind |-> "throw", ok |-> FALSE, status |-> "", message |-> msg, text |-> Absent]

OpenRouterResponses ==
    {Resolved(t) : t \in ResponseTexts}
    \cup {HttpError("429", <<"rate limited">>), HttpError("500", <<"oops">>),
          HttpError("401", <<"no auth">>),
          HttpError("402", <<"insufficient ", "quota">>)}
    \cup {Thrown(<<"Failed to fetch">>)}

GoogleResponses ==
    {Resolved(t) : t \in ResponseTexts}
    \cup {Thrown(<<"got status: ", "429", " Too Many Requests">>),
          Thrown(<<"RESOURCE_EXHAUSTED">>),
          Thrown(<<"You exceeded your current ", "quota">>),
          Thrown(<<"API key not valid">>),
          Thrown(<<"Failed to fetch">>)}

(***************************************************************************)
(* One request to generateProjectBlueprint / enhanceProjectBlueprint: what *)
(* each step does to the variables of the generator                        *)
(***************************************************************************)
GenInit ==
    /\ settings \in SettingsSet
    /\ rpc = "Idle"
    /\ rop = "none"
    /\ rname = <<>>
    /\ provider = "none"
    /\ credential = <<>>
    /\ remoteCalls = 0
    /\ response = NoResponse
    /\ result = Err(<<>>)

InFlight == rpc = "AwaitingProvider"

\* the call op(.., name, settings) throws at its credential test
FailPrecondition(op, name) ==
    /\ MissingCredential(settings)
    /\ rop' = op
    /\ rname' = name
    /\ rpc' = "Failed"
    /\ provider' = "none"
    /\ credential' = <<>>
    /\ remoteCalls' = 0
    /\ response' = NoResponse
    /\ result' = Err(PreconditionMessage(settings))
    /\ UNCHANGED settings

\* the call op(.., name, settings) builds its prompts and issues the remote call
\* (fetch or ai.models.generateContent), then awaits it
IssueCall(op, name) ==
    /\ ~MissingCredential(settings)
    /\ rop' = op
    /\ rname' = name
    /\ rpc' = "AwaitingProvider"
    /\ provider' = IF settings.useCustomApi THEN "openrouter" ELSE "google"
    /\ credential' = CredentialSent(settings)
    /\ remoteCalls' = 1
    /\ response' = NoResponse
    /\ result' = Err(<<>>)
    /\ UNCHANGED settings

\* the awaited call settles with resp; the function returns or throws out
Settle(resp, out) ==
    /\ rpc' = IF out.ok THEN "Success" ELSE "Failed"
    /\ response' = resp
    /\ result' = out
    /\ UNCHANGED <<settings, rop, rname, provider, credential, remoteCalls>>

\* mutant: a thrown provider error is retried once before it is reported
SettleGoogleWithRetry(resp) ==
    /\ InFlight /\ provider = "google"
    /\ IF resp.kind = "throw" /\ remoteCalls < 2
       THEN /\ remoteCalls' = remoteCalls + 1
            /\ UNCHANGED <<settings, rpc, rop, rname, provider, credential, response,
                           result>>
       ELSE Settle(resp, GoogleOutcome(rop, rname, resp))

\* the Google call settles; the response is normalised, errors are mapped
SettleGoogle(resp) ==
    /\ InFlight /\ provider = "google"
    /\ Settle(resp, GoogleOutcome(rop, rname, resp))

\* the OpenRouter call settles; the response is normalised
SettleOpenRouter(resp) ==
    /\ InFlight /\ provider = "openrouter"
    /\ Settle(resp, OpenRouterOutcome(rname, resp))

\* the setSettings of updateSetting(key, value) from the settings view
SetSetting(keys) ==
    /\ \/ settings' = [settings EXCEPT !.useCustomApi = ~settings.useCustomApi]
       \/ settings' = [settings EXCEPT !.autoSave = ~settings.autoSave]
       \/ \E k \in keys : /\ k # settings.openRouterApiKey
                          /\ settings' = [settings EXCEPT !.openRouterApiKey = k]
    /\ UNCHANGED <<rpc, rop, rname, provider, credential, remoteCalls, response, result>>

(***************************************************************************)
(* The generator on its own, called with any settings                      *)
(***************************************************************************)
UpdateSetting ==
    /\ SetSetting(Keys)
    /\ UNCHANGED <<jsonVars, zipVars, appVars, cardVars>>

\* a call whose credential test throws: no prompt leaves the client
CallFailsPrecondition ==
    /\ ~InFlight
    /\ \E op \in Operations, name \in ProjectNameArgs : FailPrecondition(op, name)
    /\ UNCHANGED <<jsonVars, zipVars, appVars, cardVars>>

\* one invocation at a time: the next call starts when the last one has ended
CallProvider ==
    /\ ~InFlight
    /\ \E op \in Operations, name \in ProjectNameArgs : IssueCall(op, name)
    /\ UNCHANGED <<jsonVars, zipVars, appVars, cardVars>>

OpenRouterSettles ==
    /\ \E resp \in OpenRouterResponses : SettleOpenRouter(resp)
    /\ UNCHANGED <<jsonVars, zipVars, appVars, cardVars>>

GoogleSettles ==
    /\ \E resp \in GoogleResponses : SettleGoogle(resp)
    /\ UNCHANGED <<jsonVars, zipVars, appVars, cardVars>>

GenNext ==
    \/ UpdateSetting
    \/ CallFailsPrecondition
    \/ CallProvider
    \/ OpenRouterSettles
    \/ GoogleSettles

\* no request yet, with DEFAULT_SETTINGS
GenIdle ==
    /\ settings = [useCustomApi |-> FALSE, openRouterApiKey |-> <<>>,
                   googleApiKey |-> <<>>, autoSave |-> TRUE]
    /\ rpc = "Idle"
    /\ rop = "none"
    /\ rname = <<>>
    /\ provider = "none"
    /\ credential = <<>>
    /\ remoteCalls = 0
    /\ response = NoResponse
    /\ result = Err(<<>>)

(***************************************************************************)
(* App: state, load effect, handleGenerate / handleEnhance, handleSuccess, *)
(* handleError, deleteHistoryItem and the history view                     *)
(***************************************************************************)
MaxHistory == 2

MaxClock == 1

\* useState(null) of blueprint and error
NullBlueprint == [null |-> TRUE, bp |-> NoBlueprint]

Shown(bp) == [null |-> FALSE, bp |-> bp]

NullError == [null |-> TRUE, msg |-> <<>>]

Message(msg) == [null |-> FALSE, msg |-> msg]

\* the value of the state history: a list of items, or whatever else the load
\* effect put there
ListOf(items) == [isArray |-> TRUE, items |-> items, other |-> NoValue]

NotAList(value) == [isArray |-> FALSE, items |-> <<>>, other |-> value]

\* the HistoryItem handleSuccess builds from two readings of Date.now()
HistoryItemOf(t1, t2, bp) ==
    [id |-> ToString(t1), timestamp |-> t2, projectName |-> bp.projectName,
     blueprint |-> bp]

\* prev.filter(item => item.id !== id)
RECURSIVE FilterOutId(_, _)
FilterOutId(items, id) ==
    IF items = <<>> THEN <<>>
    ELSE IF Head(items).id # id THEN <<Head(items)>> \o FilterOutId(Tail(items), id)
    ELSE FilterOutId(Tail(items), id)

\* what localStorage.getItem returns: null, or a text.  A text is either a
\* sequence of units, or the text JSON.stringify wrote for a list of history
\* items (kind "saved"), which JSON.parse reads back as that list.
Missing == [kind |-> "missing", text |-> <<>>, items |-> <<>>]

StoredText(units) == [kind |-> "text", text |-> units, items |-> <<>>]

SavedItems(items) == [kind |-> "saved", text |-> <<>>, items |-> items]

\* the text JSON.stringify writes for a value that is no list
SavedValue(value) == [kind |-> "value", text |-> <<>>, items |-> <<>>, other |-> value]

\* the text JSON.stringify writes for the settings
SavedSettings(s) == [kind |-> "settings", text |-> <<>>, items |-> <<>>, settings |-> s]

\* JSON.stringify(history)
Stringified(h) == IF h.isArray THEN SavedItems(h.items) ELSE SavedValue(h.other)

\* whether the load effect reaches its set call on the stored item: the item
\* is there, is not the empty text, and JSON.parse does not throw on it
ParsesOk(saved) ==
    \/ saved.kind \in {"saved", "value", "settings"}
    \/ saved.kind = "text" /\ saved.text # <<>> /\ JSONparse(saved.text).ok

\* if (savedHistory) { try { setHistory(JSON.parse(savedHistory)) } catch {} }:
\* null and the empty text are falsy; a text that parses replaces the state
\* with the parsed value whatever it is
LoadedHistory(saved, current) ==
    IF saved.kind = "missing" THEN current
    ELSE IF saved.kind = "saved" THEN ListOf(saved.items)
    ELSE IF saved.kind = "value" THEN NotAList(saved.other)
    ELSE IF saved.text = <<>> THEN current
    ELSE LET p == JSONparse(saved.text) IN
         IF ~p.ok THEN current
         ELSE IF p.val.t = "arr" /\ p.val.e = <<>> THEN ListOf(<<>>)
         ELSE NotAList(p.val)

DEFAULT_SETTINGS ==
    [useCustomApi |-> FALSE, openRouterApiKey |-> <<>>, googleApiKey |-> <<>>,
     autoSave |-> TRUE]

\* { ...DEFAULT_SETTINGS, ...value }: the members of value replace the defaults
SpreadOver(defaults, value) ==
    [useCustomApi |-> IF Get(value, "useCustomApi") = "undefined"
                      THEN defaults.useCustomApi
                      ELSE Get(value, "useCustomApi") = "true",
     openRouterApiKey |-> IF Get(value, "openRouterApiKey") = "undefined"
                          THEN defaults.openRouterApiKey
                          ELSE <<Get(value, "openRouterApiKey")>>,
     googleApiKey |-> IF Get(value, "googleApiKey") = "undefined"
                      THEN defaults.googleApiKey
                      ELSE <<Get(value, "googleApiKey")>>,
     autoSave |-> IF Get(value, "autoSave") = "undefined"
                  THEN defaults.autoSave
                  ELSE Get(value, "autoSave") = "true"]

\* if (savedSettings) { try { setSettings({...DEFAULT_SETTINGS, ...parsed}) } catch {} }
LoadedSettings(saved, current) ==
    IF saved.kind # "text" \/ saved.text = <<>> THEN current
    ELSE LET p == JSONparse(saved.text) IN
         IF p.ok THEN SpreadOver(DEFAULT_SETTINGS, p.val) ELSE current

(***************************************************************************)
(* Inputs of the App                                                       *)
(***************************************************************************)
SavedBlueprint == Blueprint(<<"old">>, JObj)

StoredHistories ==
    {Missing, SavedItems(<<HistoryItemOf(0, 0, SavedBlueprint)>>),
     StoredText(<<"[">>), StoredText(<<"{", "}">>)}

StoredSettings ==
    {Missing, StoredText(<<"{">>),
     StoredText(<<"{", MemberUseCustomApi, ",", MemberOpenRouterApiKey, "}">>),
     StoredText(<<"{", MemberAutoSaveFalse, "}">>)}

\* what localStorage holds at mount: every stored history with no stored
\* settings, and every stored settings next to a saved history
StoredStates ==
    {l \in [history : StoredHistories, settings : StoredSettings] :
        l.history.kind = "saved" \/ l.settings.kind = "missing"}

\* the keys typed in the settings view: the field is cleared
AppKeys == {<<>>}

AppProjectNames == {<<"Todo App">>}

AppGoogleResponses ==
    {Resolved(Present(<<"{", MemberProjectName, "}">>)),
     Thrown(<<"Failed to fetch">>)}

AppOpenRouterResponses ==
    {Resolved(Present(<<"{", MemberProjectName, "}">>)),
     HttpError("429", <<"rate limited">>)}

(***************************************************************************)
(* Actions of the App                                                      *)
(***************************************************************************)
\* the state of the first render, before the effects run; the clock reads
\* later than the timestamps of the items saved by earlier sessions
AppInit ==
    /\ apc = "mounting"
    /\ loaded \in StoredStates
    /\ history = ListOf(<<>>)
    /\ blueprint = NullBlueprint
    /\ error = NullError
    /\ isLoading = FALSE
    /\ now = 1
    /\ currentView = "home"
    /\ requests = 0
    /\ storage = loaded

\* the App is not mounted
AppIdle ==
    /\ apc = "mounting"
    /\ loaded = [history |-> Missing, settings |-> Missing]
    /\ history = ListOf(<<>>)
    /\ blueprint = NullBlueprint
    /\ error = NullError
    /\ isLoading = FALSE
    /\ now = 0
    /\ currentView = "home"
    /\ requests = 0
    /\ storage = [history |-> Missing, settings |-> Missing]

Running == apc = "running"

\* the save-history effect of a render with history h and settings s, on the
\* stored history st: if (s.autoSave) setItem('shahid_ai_history', stringify(h))
SaveHistoryEffect(st, h, s) == IF s.autoSave THEN Stringified(h) ELSE st

\* localStorage after the effects of the mount, from what it held (saved) and
\* the state of the first render (h0, s0).  The three effects of the first
\* render run in source order with the values of that render: the load effect
\* reads both items and queues its set calls, the save-history effect and the
\* save-settings effect write h0 and s0.  If a set call was queued the App
\* renders again with the loaded values, and the save effects whose
\* dependencies changed run again.
MountedStorage(saved, h0, s0) ==
    LET h1 == LoadedHistory(saved.history, h0)
        s1 == LoadedSettings(saved.settings, s0)
        first == [history |-> SaveHistoryEffect(saved.history, h0, s0),
                  settings |-> SavedSettings(s0)]
        historyDeps == ParsesOk(saved.history) \/ s1.autoSave # s0.autoSave
        settingsDeps == ParsesOk(saved.settings)
    IN  [history |-> IF historyDeps THEN SaveHistoryEffect(first.history, h1, s1)
                     ELSE first.history,
         settings |-> IF settingsDeps THEN SavedSettings(s1) ELSE first.settings]

\* the effects of the mount
LoadEffect ==
    /\ apc = "mounting"
    /\ apc' = "running"
    /\ history' = LoadedHistory(loaded.history, history)
    /\ settings' = LoadedSettings(loaded.settings, settings)
    /\ storage' = MountedStorage(loaded, history, settings)
    /\ UNCHANGED <<loaded, blueprint, error, isLoading, now, currentView, requests>>
    /\ UNCHANGED <<rpc, rop, rname, provider, credential, remoteCalls, response, result>>
    /\ UNCHANGED <<jsonVars, zipVars, cardVars>>

\* the effects of the render that follows setSettings: the save-settings effect
\* writes s; autoSave, a dependency of the save-history effect, may have changed
SettingSaved(st, h, s) ==
    [history |-> SaveHistoryEffect(st.history, h, s), settings |-> SavedSettings(s)]

\* updateSetting(key, value) from the settings view, and the save effects
AppUpdateSetting ==
    /\ Running /\ currentView = "settings"
    /\ SetSetting(AppKeys)
    /\ storage' = SettingSaved(storage, history, settings')
    /\ UNCHANGED <<apc, loaded, history, blueprint, error, isLoading, now, currentView,
                   requests>>
    /\ UNCHANGED <<jsonVars, zipVars, cardVars>>

\* mutant: the submit buttons ignore isLoading
CanSubmitWhileLoading ==
    /\ Running /\ currentView = "home"
    /\ history.isArray => Len(history.items) < MaxHistory

\* FloatingInput is rendered in the home view; its submit buttons are disabled
\* while isLoading; the history is capped
CanSubmit ==
    /\ Running /\ currentView = "home"
    /\ ~isLoading
    /\ history.isArray => Len(history.items) < MaxHistory

\* mutant: no finally block after handleError
HandleErrorWithoutFinally(msg) ==
    /\ error' = Message(msg)
    /\ UNCHANGED <<apc, loaded, history, now, currentView, storage, isLoading>>

\* handleError(err), then the finally block
HandleError(msg) ==
    /\ error' = Message(msg)
    /\ isLoading' = FALSE
    /\ UNCHANGED <<apc, loaded, history, now, currentView, storage>>

\* mutant: the save-history effect writes whatever autoSave is
HistorySavedAlways(st, h, s) == [st EXCEPT !.history = Stringified(h)]

\* the save-history effect of the render that follows a setHistory
HistorySaved(st, h, s) == [st EXCEPT !.history = SaveHistoryEffect(st.history, h, s)]

\* mutant: the new item goes to the back of the list
HandleSuccessAppending(out) ==
    /\ \E t1 \in now..MaxClock, t2 \in now..MaxClock :
          /\ t2 \in {t1, t1 + 1}
          /\ now' = t2
          /\ IF history.isArray
             THEN /\ history' = ListOf(Append(history.items,
                                              HistoryItemOf(t1, t2, out.blueprint)))
                  /\ apc' = apc
                  /\ storage' = HistorySaved(storage, history', settings)
             ELSE /\ history' = history
                  /\ apc' = "crashed"
                  /\ storage' = storage
    /\ blueprint' = Shown(out.blueprint)
    /\ isLoading' = FALSE
    /\ UNCHANGED <<loaded, error, currentView>>

\* handleSuccess(result, msg), then the finally block.  Date.now() is read
\* twice, for id and for timestamp; it does not go back, and now is its last
\* reading.  The updater [newHistoryItem, ...prev]
\* throws when prev is not iterable, which unmounts the App.
HandleSuccess(out) ==
    /\ \E t1 \in now..MaxClock, t2 \in now..MaxClock :
          /\ t2 \in {t1, t1 + 1}
          /\ now' = t2
          /\ IF history.isArray
             THEN /\ history' = ListOf(<<HistoryItemOf(t1, t2, out.blueprint)>>
                                       \o history.items)
                  /\ apc' = apc
                  /\ storage' = HistorySaved(storage, history', settings)
             ELSE /\ history' = history
                  /\ apc' = "crashed"
                  /\ storage' = storage
    /\ blueprint' = Shown(out.blueprint)
    /\ isLoading' = FALSE
    /\ UNCHANGED <<loaded, error, currentView>>

\* mutant: the catch block is missing, a failed call is handled as a success
HandleOutcomeWithoutCatch(out) == HandleSuccess(out) /\ requests' = requests - 1

\* the try / catch / finally of handleGenerate and handleEnhance once the call
\* has ended with out
HandleOutcome(out) ==
    /\ IF out.ok THEN HandleSuccess(out)
       ELSE HandleError(out.message) /\ UNCHANGED blueprint
    /\ requests' = requests - 1

\* handleGenerate / handleEnhance when the call throws at its credential test:
\* setError(null), setBlueprint(null), then the catch and finally blocks
HandleCallFailsFast ==
    /\ CanSubmit
    /\ \E op \in Operations, name \in AppProjectNames : FailPrecondition(op, name)
    /\ blueprint' = NullBlueprint
    /\ HandleError(PreconditionMessage(settings))
    /\ requests' = requests
    /\ UNCHANGED <<jsonVars, zipVars, cardVars>>

\* handleGenerate / handleEnhance up to the await of the provider
HandleCallStarts ==
    /\ CanSubmit
    /\ \E op \in Operations, name \in AppProjectNames : IssueCall(op, name)
    /\ isLoading' = TRUE
    /\ error' = NullError
    /\ blueprint' = NullBlueprint
    /\ requests' = requests + 1
    /\ UNCHANGED <<apc, loaded, history, now, currentView, storage>>
    /\ UNCHANGED <<jsonVars, zipVars, cardVars>>

HandleGoogleSettles ==
    /\ Running /\ isLoading
    /\ \E resp \in AppGoogleResponses :
          /\ SettleGoogle(resp)
          /\ HandleOutcome(GoogleOutcome(rop, rname, resp))
    /\ UNCHANGED <<jsonVars, zipVars, cardVars>>

HandleOpenRouterSettles ==
    /\ Running /\ isLoading
    /\ \E resp \in AppOpenRouterResponses :
          /\ SettleOpenRouter(resp)
          /\ HandleOutcome(OpenRouterOutcome(rname, resp))
    /\ UNCHANGED <<jsonVars, zipVars, cardVars>>

\* deleteHistoryItem(id, e) for the id of the item shown at position i
DeleteById(i) ==
    /\ history' = ListOf(FilterOutId(history.items, history.items[i].id))
    /\ storage' = HistorySaved(storage, history', settings)
    /\ UNCHANGED <<apc, loaded, blueprint, error, isLoading, now, currentView, requests>>

DeleteHistoryItem ==
    /\ Running /\ currentView = "history" /\ history.isArray
    /\ \E i \in 1..Len(history.items) : DeleteById(i)
    /\ UNCHANGED <<jsonVars, zipVars, genVars, cardVars>>

\* the onClick of an item of the history view: setBlueprint(item.blueprint),
\* setCurrentView(AppView.HOME)
SelectHistoryItem ==
    /\ Running /\ currentView = "history" /\ history.isArray
    /\ \E i \in 1..Len(history.items) : blueprint' = Shown(history.items[i].blueprint)
    /\ currentView' = "home"
    /\ UNCHANGED <<apc, loaded, history, error, isLoading, now, requests, storage>>
    /\ UNCHANGED <<jsonVars, zipVars, genVars, cardVars>>

Views == {"home", "history", "settings"}

\* a button of the bottom navigation: setCurrentView(view)
SetCurrentView ==
    /\ Running
    /\ \E view \in Views \ {currentView} :
          /\ view = "history" => history.isArray
          /\ currentView' = view
    /\ UNCHANGED <<apc, loaded, history, blueprint, error, isLoading, now, requests,
                   storage>>
    /\ UNCHANGED <<jsonVars, zipVars, genVars, cardVars>>

\* setCurrentView(AppView.HISTORY): the history view reads history.length and
\* calls history.map: on a value that is no list the render throws and the App
\* unmounts
HistoryViewThrows ==
    /\ Running /\ currentView # "history" /\ ~history.isArray
    /\ apc' = "crashed"
    /\ currentView' = "history"
    /\ UNCHANGED <<loaded, history, blueprint, error, isLoading, now, requests, storage>>
    /\ UNCHANGED <<jsonVars, zipVars, genVars, cardVars>>

AppNext ==
    \/ LoadEffect
    \/ AppUpdateSetting
    \/ HandleCallFailsFast
    \/ HandleCallStarts
    \/ HandleGoogleSettles
    \/ HandleOpenRouterSettles
    \/ DeleteHistoryItem
    \/ SelectHistoryItem
    \/ SetCurrentView
    \/ HistoryViewThrows

(***************************************************************************)
(* CodeCard: getLanguageClass(file.path, file.language)                    *)
(***************************************************************************)
\* filename.split('.').pop()?.toLowerCase(): the text after the last ".", the
\* whole name when it holds none
FileExt(filename) == LowerSeq(Drop(filename, LastDot(filename)))

getLanguageClass(filename, lang, syntaxHighlight) ==
    LET ext == FileExt(filename) IN
    IF ~syntaxHighlight THEN "language-none"
    ELSE IF lang = "typescript" \/ ext = <<"ts">> \/ ext = <<"tsx">> THEN "language-tsx"
    ELSE IF lang = "javascript" \/ ext = <<"js">> \/ ext = <<"jsx">> THEN "language-jsx"
    ELSE IF lang = "python" \/ ext = <<"py">> THEN "language-python"
    ELSE IF lang = "css" \/ ext = <<"css">> THEN "language-css"
    ELSE IF lang = "json" \/ ext = <<"json">> THEN "language-json"
    ELSE IF \/ lang = "cpp"
            \/ ext \in {<<"cpp">>, <<"c">>, <<"h">>, <<"hpp">>, <<"ino">>}
        THEN "language-cpp"
    ELSE IF ext = <<"ini">> THEN "language-ini"
    ELSE "language-javascript"

CardFilenames ==
    {<<"a", ".", e>> : e \in {"ts", "tsx", "js", "py", "css", "json", "cpp", "h", "ini",
                              "md", "html", "TS"}}
    \cup {<<"Makefile">>, <<"ts">>, <<"src", "/", "a", ".", "d", ".", "ts">>}

CardLanguages ==
    {"typescript", "javascript", "python", "css", "json", "html", "cpp", "ini", "xml",
     "markdown", "bash", "plaintext", "", "Python"}

CardInit ==
    card \in [filename : CardFilenames, lang : CardLanguages, syntaxHighlight : BOOLEAN,
              rendered : {FALSE}, className : {""}]

\* no CodeCard is mounted
CardIdle ==
    card = [filename |-> <<>>, lang |-> "", syntaxHighlight |-> TRUE, rendered |-> FALSE,
            className |-> ""]

\* the card renders its code element
RenderCard ==
    /\ ~card.rendered
    /\ card' = [card EXCEPT !.rendered = TRUE,
                            !.className = getLanguageClass(card.filename, card.lang,
                                                           card.syntaxHighlight)]
    /\ UNCHANGED <<jsonVars, zipVars, genVars, appVars>>

\* the syntaxHighlight setting is toggled and the card renders again
ToggleSyntaxHighlight ==
    /\ card.rendered
    /\ card' = [card EXCEPT !.syntaxHighlight = ~card.syntaxHighlight,
                            !.className = getLanguageClass(card.filename, card.lang,
                                                           ~card.syntaxHighlight)]
    /\ UNCHANGED <<jsonVars, zipVars, genVars, appVars>>

CardNext == RenderCard \/ ToggleSyntaxHighlight

(***************************************************************************)
(* Specifications                                                          *)
(***************************************************************************)
Init == GenInit /\ JsonIdle /\ ZipInit /\ AppIdle /\ CardIdle

\* requests to the blueprint generator
Spec == Init /\ [][GenNext]_vars

InitJson == JsonInit /\ ZipInit /\ GenIdle /\ AppIdle /\ CardIdle

\* the normaliser applied to one provider text
SpecJson == InitJson /\ [][JsonNext]_vars

InitZip == ZipInit /\ JsonIdle /\ GenIdle /\ AppIdle /\ CardIdle

\* export and import of archives with the codec of types.ts
SpecZip == InitZip /\ [][ZipNext]_vars

\* the same with the second copy of readProjectZip
SpecZipLegacy == InitZip /\ [][LegacyZipNext]_vars

InitApp == AppInit /\ GenIdle /\ JsonIdle /\ ZipInit /\ CardIdle

\* the App from its mount on
SpecApp == InitApp /\ [][AppNext]_vars

\* the App mounted on a saved history with stored OpenRouter settings, or on a
\* stored history that is no list
InitAppLive ==
    /\ InitApp
    /\ \/ loaded.history.kind = "saved" /\ Get(JSONparse(loaded.settings.text).val,
                                                "useCustomApi") = "true"
       \/ loaded.history.kind = "text" /\ JSONparse(loaded.history.text).ok

\* the App when every provider call that is awaited settles in the end
SpecAppLive ==
    /\ InitAppLive
    /\ [][AppNext]_vars
    /\ WF_vars(HandleGoogleSettles)
    /\ WF_vars(HandleOpenRouterSettles)

InitCard == CardInit /\ GenIdle /\ JsonIdle /\ ZipInit /\ AppIdle

\* one CodeCard showing one file
SpecCard == InitCard /\ [][CardNext]_vars

(***************************************************************************)
(* Claims about the blueprint generator (checked under Spec)               *)
(***************************************************************************)
\* a step that is a call to generateProjectBlueprint or enhanceProjectBlueprint
\* (the only other step possible when no call is in flight changes settings)
CallStep == ~InFlight /\ settings' = settings

\* the credential the settings configure for the active provider
ConfiguredCredential(s) ==
    IF s.useCustomApi THEN s.openRouterApiKey ELSE s.googleApiKey

PreconditionMessages == {ErrNoOpenRouterKey, ErrNoApiKey}

C11_ProjectNameIsCallers ==
    rpc = "Success" =>
        /\ result.ok
        /\ result.blueprint.projectName = rname
        /\ result.blueprint.description
              = Get(cleanAndParseJson(response.text).val, "description")

C11_Witness ==
    /\ rpc = "Success"
    /\ rop = "enhance"
    /\ provider = "openrouter"
    /\ Get(cleanAndParseJson(response.text).val, "projectName") = "Evil"
    /\ result.blueprint.projectName = <<"p2">>
    /\ result.blueprint.description = "d"

\* the provider failed: the call threw, or answered with a status that is not ok
ProviderFailure(resp) == resp.kind = "throw" \/ (resp.kind = "resolve" /\ ~resp.ok)

HasQuotaIndicator(msg) ==
    \/ Includes(msg, <<"429">>)
    \/ Includes(msg, <<"RESOURCE_EXHAUSTED">>)
    \/ Includes(msg, <<"quota">>)

IsRateLimit(resp) == resp.status = "429" \/ HasQuotaIndicator(resp.message)

\* C12 as stated: on either backend a provider failure with status 429 or a
\* quota / resource-exhaustion indicator in its message fails the request with
\* the message that carries the own-key hint, and every other provider failure
\* fails it with another message that wraps the underlying one.
C12_RateLimitHintEitherBackend ==
    (rpc = "Failed" /\ ProviderFailure(response)) =>
        IF IsRateLimit(response)
        THEN result.message = ErrQuota
        ELSE /\ result.message # ErrQuota
             /\ EndsWith(result.message, response.message)

\* C12 amended: on Google a thrown provider error whose message holds 429,
\* RESOURCE_EXHAUSTED or quota fails the request with the own-key hint and
\* every other thrown error with "AI Error: " followed by its message; on
\* OpenRouter no failure carries the hint: a status that is not ok (429
\* included) fails the request with "OpenRouter API Error: <status> - <body>"
\* and a thrown error is passed on unchanged.
C12_RateLimitHintGoogleOnly ==
    (rpc = "Failed" /\ ProviderFailure(response)) =>
        IF provider = "google"
        THEN IF HasQuotaIndicator(response.message)
             THEN result.message = ErrQuota
             ELSE result.message = <<"AI Error: ">> \o response.message
        ELSE /\ provider = "openrouter"
             /\ result.message # ErrQuota
             /\ response.kind = "throw" => result.message = response.message
             /\ response.kind = "resolve" =>
                   result.message = <<"OpenRouter API Error: ", response.status, " - ">>
                                    \o response.message

C12_Witness ==
    /\ rpc = "Failed"
    /\ provider = "openrouter"
    /\ response = HttpError("429", <<"rate limited">>)
    /\ result.message = <<"OpenRouter API Error: ", "429", " - ", "rate limited">>

Terminal(pc) == pc \in {"Success", "Failed"}

\* C13: each invocation issues at most one remote call (none is added while
\* the call is awaited or after it ended); an awaited call ends, when the
\* provider settles, in exactly one of Success(blueprint) and Failed(error),
\* which nothing but a new invocation replaces; a provider response is
\* normalised only after the await, which follows the building of the prompts.
C13_AtMostOneCallOneOutcome ==
    /\ [](remoteCalls \in {0, 1})
    /\ [](InFlight => (remoteCalls = 1 /\ response = NoResponse))
    /\ [](Terminal(rpc) => /\ (rpc = "Success") = result.ok
                           /\ result.ok => result.message = <<>>
                           /\ ~result.ok => result.blueprint = NoBlueprint
                           /\ (response = NoResponse) = (remoteCalls = 0))
    /\ [][InFlight => (/\ remoteCalls' = remoteCalls
                       /\ rpc' # rpc => (Terminal(rpc') /\ response' # NoResponse))]_vars
    /\ [][(Terminal(rpc) /\ <<rpc', result', remoteCalls', response'>>
                             # <<rpc, result, remoteCalls, response>>)
            => (/\ response' = NoResponse
                /\ \/ rpc' = "AwaitingProvider" /\ remoteCalls' = 1
                   \/ rpc' = "Failed" /\ remoteCalls' = 0)]_vars

C13_Witness ==
    /\ rpc = "Failed"
    /\ provider = "google"
    /\ remoteCalls = 1
    /\ response = Thrown(<<"Failed to fetch">>)
    /\ result.message = <<"AI Error: ", "Failed to fetch">>

(***************************************************************************)
(* Claims about the App (checked under SpecApp)                            *)
(***************************************************************************)
\* a step in which a Generate or Enhance request ends in failure
RequestFails ==
    /\ rpc' = "Failed"
    /\ <<rpc', rop', rname', response', result'>> # <<rpc, rop, rname, response, result>>

\* a step in which a request ends in success
RequestSucceeds == isLoading /\ rpc' = "Success"

BlueprintsOf(items) == {items[i].blueprint : i \in 1..Len(items)}

\* C14: a request that ends in failure, of whatever kind, leaves the history
\* list as it was, displays no blueprint of that request (the displayed
\* blueprint is null, or stays the one selected from the history meanwhile) and sets
\* error to exactly the message of the failure; the history list changes only
\* at the mount, by a successful request and by a deletion, and a blueprint
\* comes to be displayed only by a successful request or from the history.
C14_FailureDoesNotPartiallySucceed ==
    /\ [][RequestFails =>
            (/\ history' = history
             /\ blueprint' \in {NullBlueprint, blueprint}
             /\ error' = Message(result'.message)
             /\ result'.message # <<>>
             /\ ~isLoading')]_vars
    /\ [][history' # history =>
            (\/ apc = "mounting"
             \/ RequestSucceeds
             \/ /\ genVars' = genVars
                /\ Len(history'.items) < Len(history.items))]_vars
    /\ [][(blueprint' # blueprint /\ ~blueprint'.null) =>
            (\/ RequestSucceeds /\ blueprint'.bp = result'.blueprint
             \/ genVars' = genVars /\ blueprint'.bp \in BlueprintsOf(history.items))]_vars

C14_Witness ==
    /\ rpc = "Failed"
    /\ response = Thrown(<<"Failed to fetch">>)
    /\ ~isLoading
    /\ error = Message(<<"AI Error: ", "Failed to fetch">>)
    /\ Len(history.items) = 1
    /\ blueprint = Shown(history.items[1].blueprint)

NewestFirst(items) ==
    \A i, j \in 1..Len(items) : i < j => items[i].timestamp >= items[j].timestamp

C16_HistoryIdsDistinct ==
    history.isArray =>
        \A i, j \in 1..Len(history.items) :
            history.items[i].id = history.items[j].id => i = j

\* items without its i-th element
Without(items, i) == SubSeq(items, 1, i - 1) \o SubSeq(items, i + 1, Len(items))

\* a step of deleteHistoryItem
DeleteStep ==
    /\ history.isArray /\ history'.isArray
    /\ genVars' = genVars
    /\ Len(history'.items) < Len(history.items)

\* C17: deleteHistoryItem removes exactly one item, the one chosen, and leaves
\* the other items, their order, the displayed blueprint and the settings as
\* they were.
C17_DeleteRemovesExactlyOne ==
    [][DeleteStep =>
         (/\ \E i \in 1..Len(history.items) : history'.items = Without(history.items, i)
          /\ blueprint' = blueprint
          /\ settings' = settings
          /\ error' = error
          /\ isLoading' = isLoading)]_vars

Unusable(saved) ==
    \/ saved.kind = "missing"
    \/ saved.kind = "text" /\ (~JSONparse(saved.text).ok \/ JSONparse(saved.text).val.t # "arr")

\* C18: the load never ends the App and treats unusable stored data as absent:
\* after the load effect the history is a list, empty when the stored value is
\* missing, unparseable or no list, and the settings have every key of the
\* defaults defined; no later step finds a history that is no list.
C18_LoadTreatsCorruptAsAbsent ==
    /\ [][apc = "mounting" =>
            (/\ apc' = "running"
             /\ history'.isArray
             /\ Unusable(loaded.history) => history'.items = <<>>
             /\ settings'.useCustomApi \in BOOLEAN
             /\ settings'.openRouterApiKey \in Keys
             /\ Unusable(loaded.settings) => settings' = DEFAULT_SETTINGS)]_vars
    /\ [](history.isArray /\ apc # "crashed")

(***************************************************************************)
(* Claims about cleanAndParseJson (checked under SpecJson)                 *)
(***************************************************************************)
TagJson == <<"j", "s", "o", "n">>

Called == jpc # "idle"

\* rawText is marker, tag, newline, body, newline, marker: the body it wraps
FenceBody(tag) ==
    SubSeq(rawText.s, Len(Fence) + Len(tag) + 2, Len(rawText.s) - Len(Fence) - 1)

IsFencedWith(tag) ==
    /\ ~rawText.absent
    /\ Len(rawText.s) >= 2 * Len(Fence) + Len(tag) + 2
    /\ rawText.s = Fenced(tag, FenceBody(tag))

\* C8: for every JSON text J, cleanAndParseJson of J wrapped in a leading
\* json-tagged fence line and a trailing fence returns the same parsed value as
\* cleanAndParseJson of the bare J.
C8_FencedJsonSameAsBare ==
    (Called /\ IsFencedWith(TagJson) /\ JSONparse(FenceBody(TagJson)).ok)
        => /\ jpc = "returned"
           /\ jresult = cleanAndParseJson(Present(FenceBody(TagJson)))
           /\ jresult.val = JSONparse(FenceBody(TagJson)).val

C8_Witness ==
    /\ jpc = "returned"
    /\ rawText = Present(Fenced(TagJson, <<"[", "1", "]">>))
    /\ jresult.val = JArr(<<JNum(1)>>)

C10_EmptyAndInvalidThrow ==
    Called =>
        /\ (rawText.absent \/ rawText.s = <<>>)
              => /\ jpc = "thrown"
                 /\ jresult = [ok |-> FALSE, err |-> ErrEmpty, val |-> NoValue]
        /\ (~rawText.absent /\ rawText.s # <<>>
                /\ ~JSONparse(StripFences(Trim(rawText.s))).ok)
              => /\ jpc = "thrown"
                 /\ jresult = [ok |-> FALSE, err |-> ErrInvalidJson, val |-> NoValue]
        /\ jpc = "returned" => JSONparse(cleaned).ok /\ jresult.val = JSONparse(cleaned).val

C10_Witness ==
    /\ jpc = "thrown"
    /\ rawText = Present(<<"{", "1">>)
    /\ jresult.err = ErrInvalidJson

(***************************************************************************)
(* Claims about the archive codec                                          *)
(***************************************************************************)
\* the last readProjectZip call has ended
ReadEnded == zpc = "idle" /\ outcome # "none"

Returned == zpc = "idle" /\ outcome = "returned"

PairOf(r) == <<r.path, r.content>>

Pairs(fs) == {PairOf(fs[i]) : i \in 1..Len(fs)}

HasNul(content) == \E k \in 1..Len(content) : content[k] = "NUL"

GoodText(e) == e.readable /\ e.content # <<>> /\ ~HasNul(e.content)

\* the seven substrings the claims name
NamedSubstrings ==
    {<<"node_modules">>, <<".", "git">>, <<"dist">>, <<"build">>, <<".", "next">>,
     <<"__pycache__">>, <<".", "DS_Store">>}

HasNamedSubstring(path) == \E x \in NamedSubstrings : Includes(path, x)

\* C2: no file returned by readProjectZip has a path containing node_modules,
\* .git, dist, build, .next, __pycache__ or .DS_Store (stated of the list under
\* construction and of the list handed to the form).
C2_NoExcludedPathReturned ==
    /\ \A i \in 1..Len(files) : ~HasNamedSubstring(files[i].path)
    /\ \A i \in 1..Len(uploadedFiles) : ~HasNamedSubstring(uploadedFiles[i].path)

\* C3: when readProjectZip has returned, every non-directory entry whose file
\* name ends in an extension of the validExtensions list, whose path has none of
\* the excluded substrings and whose text is non-empty without null byte is in
\* the returned list.
C3_AllowListedEntryReturned ==
    Returned =>
        \A i \in 1..Len(file.entries) :
            LET e == file.entries[i] IN
            (/\ ~e.dir
             /\ \E x \in validExtensions : EndsWith(e.path, x)
             /\ ~HasNamedSubstring(e.path)
             /\ GoodText(e))
                => <<e.path, e.content>> \in Pairs(files)

\* the admission rules, on a file record of the exported list
PassesAdmission(r) ==
    /\ PassesExtensionCheck(r.path)
    /\ ~HasNamedSubstring(r.path)
    /\ r.content # <<>> /\ ~HasNul(r.content)

RoundTripDone == Returned /\ file.exported

\* C4 as stated: for every list with unique non-empty paths, decoding the
\* archive encoded from it returns pairs that are a subset of the original
\* pairs and contain every original pair that passes the admission rules.
C4_RoundTripSubset ==
    RoundTripDone =>
        /\ Pairs(files) \subseteq Pairs(file.source)
        /\ \A i \in 1..Len(file.source) :
              PassesAdmission(file.source[i]) => PairOf(file.source[i]) \in Pairs(files)

NoLeadingSlash(fs) == \A i \in 1..Len(fs) : fs[i].path[1] # "/"

\* C4 amended: the same, for lists none of whose paths starts with "/" (the
\* encoder removes one leading "/", so such a path comes back changed).
C4_RoundTripSubsetRelativePaths ==
    (RoundTripDone /\ NoLeadingSlash(file.source)) =>
        /\ Pairs(files) \subseteq Pairs(file.source)
        /\ uploadedFiles = files
        /\ \A i \in 1..Len(file.source) :
              PassesAdmission(file.source[i]) => PairOf(file.source[i]) \in Pairs(files)

C4_Witness ==
    /\ RoundTripDone
    /\ NoLeadingSlash(file.source)
    /\ Len(file.source) = 2
    /\ Len(files) = 1
    /\ files[1].path = <<"src", "/", "a", ".", "ts">>
    /\ file.source[1].path = <<"a", ".", "png">>

\* C5: if the read of an admitted entry fails, readProjectZip still returns;
\* that entry is not in the list and every other entry that passes the
\* admission rules and reads to good text is, before and after it.
C5_FailedReadSkipsOnlyThatEntry ==
    \A i \in 1..Len(file.entries) :
        LET e == file.entries[i] IN
        (/\ ReadEnded /\ file.openable
         /\ ~e.dir /\ ~HasNamedSubstring(e.path) /\ PassesExtensionCheck(e.path)
         /\ ~e.readable)
            => /\ outcome = "returned"
               /\ \A j \in 1..Len(files) : files[j].path # e.path
               /\ \A k \in 1..Len(file.entries) :
                     LET o == file.entries[k] IN
                     (/\ ~o.dir /\ ~HasNamedSubstring(o.path)
                      /\ PassesExtensionCheck(o.path) /\ GoodText(o))
                         => <<o.path, o.content>> \in Pairs(files)

C5_Witness ==
    /\ Returned
    /\ file.entries = FailureArchive
    /\ warned = 1
    /\ Len(files) = 2
    /\ files[1].path = <<"b", ".", "md">>
    /\ files[2].path = <<"Makefile">>

\* C6: readProjectZip fails as a whole only when the archive cannot be opened;
\* then it yields no file list, handleFileUpload's catch block runs and the
\* uploaded file list and upload name are left as they were.
C6_OnlyOpenFailureIsFatal ==
    /\ [](outcome = "failed" => (~file.openable /\ files = <<>> /\ alerted))
    /\ [][(zpc = "opening" /\ ~file.openable)
            => (/\ outcome' = "failed"
                /\ alerted'
                /\ uploadedFiles' = uploadedFiles
                /\ uploadName' = uploadName)]_vars
    /\ [][(zpc \in {"loop", "reading"}) => (outcome' # "failed")]_vars

C6_Witness ==
    /\ zpc = "idle"
    /\ outcome = "failed"
    /\ alerted
    /\ Len(uploadedFiles) = 1
    /\ uploadName = <<"proj">>

\* C7: every file record returned by readProjectZip has non-empty content
\* without a null byte; an admitted entry whose text is empty or holds a null
\* byte is not in the returned list.
C7_ReturnedContentIsText ==
    /\ \A i \in 1..Len(files) :
          files[i].content # <<>> /\ ~HasNul(files[i].content)
    /\ \A i \in 1..Len(uploadedFiles) :
          uploadedFiles[i].content # <<>> /\ ~HasNul(uploadedFiles[i].content)
    /\ Returned =>
          \A i \in 1..Len(file.entries) :
              LET e == file.entries[i] IN
              (~e.dir /\ e.readable /\ (e.content = <<>> \/ HasNul(e.content)))
                  => <<e.path, e.content>> \notin Pairs(files)

C7_Witness ==
    /\ Returned
    /\ file.entries = ScenarioArchive
    /\ files = <<[path |-> <<"src", "/", "a", ".", "ts">>, content |-> <<"x">>,
                  language |-> "typescript"]>>

(***************************************************************************)
(* Claims about the language classifier and the CodeCard                   *)
(***************************************************************************)
LanguageTags ==
    {"typescript", "javascript", "python", "css", "json", "html", "cpp", "ini", "xml",
     "markdown", "bash", "plaintext"}

CppGroup == {<<".", e>> : e \in {"cpp", "c", "h", "hpp", "ino", "cs", "java"}}

IniGroup == {<<".", e>> : e \in {"yaml", "yml", "toml", "ini"}}

\* C19: the tag of every returned file record (getLanguageFromExt of its
\* extension) is one of the classifier's tags; .cpp, .c, .h, .hpp, .ino, .cs
\* and .java all get the tag of .cpp, and .yaml, .yml, .toml and .ini all get
\* the tag of .ini; an extension that has no dot-separated name of its own
\* (a special file name) gets plaintext.
C19_ClassifierTotalManyToOne ==
    \A i \in 1..Len(files) :
        LET ext == PathExt(files[i].path)
            lang == files[i].language IN
        /\ lang \in LanguageTags
        /\ ext \in CppGroup => lang = "cpp"
        /\ ext \in IniGroup => lang = "ini"
        /\ isSpecialFile(files[i].path) => lang = "plaintext"

\* the style getLanguageClass has for a stored tag it recognises
StyleOfTag(lang) ==
    CASE lang = "typescript" -> "language-tsx"
      [] lang = "javascript" -> "language-jsx"
      [] lang = "python" -> "language-python"
      [] lang = "css" -> "language-css"
      [] lang = "json" -> "language-json"
      [] lang = "cpp" -> "language-cpp"

StyledTags == {"typescript", "javascript", "python", "css", "json", "cpp"}

\* C20: with syntax highlighting on, a card whose stored language tag is one
\* getLanguageClass recognises is rendered with the style of that tag, whatever
\* the extension of its file name.
C20_StoredTagTakesPrecedence ==
    (card.rendered /\ card.syntaxHighlight /\ card.lang \in StyledTags)
        => card.className = StyleOfTag(card.lang)

(***************************************************************************)
(* Claims about readProjectZip's name, admission and order                 *)
(***************************************************************************)
\* the name without a '.zip' at its end
WithoutTrailingZip(name) ==
    IF EndsWith(name, <<".", "zip">>) THEN Take(name, Len(name) - 2) ELSE name

\* C21: once readProjectZip has opened the archive, guessedName is the uploaded
\* file's name with a '.zip' at its end removed and nothing else changed,
\* whatever the name and the entries of the archive.
C21_GuessedNameStripsTrailingZip ==
    zpc \in {"loop", "reading"} => guessedName = WithoutTrailingZip(file.name)

\* C23: a returned file whose path holds no '.' has a path that ends with
\* Makefile, Dockerfile or Jenkinsfile: its extension "." matches no allow-list
\* entry, so entries named 'txt' or 'md' are skipped.
C23_NoDotOnlySpecialFiles ==
    \A i \in 1..Len(files) :
        ~Includes(files[i].path, <<".">>) => isSpecialFile(files[i].path)

\* the entry the loop is at has a path that ends with Makefile, Dockerfile or
\* Jenkinsfile, holds none of the excluded substrings, and decodes to non-empty
\* text without null bytes
AtGoodSpecialEntry ==
    /\ zpc \in {"loop", "reading"} /\ zidx <= Len(file.entries)
    /\ ~Cur.dir
    /\ isSpecialFile(Cur.path)
    /\ ~HasNamedSubstring(Cur.path)
    /\ GoodText(Cur)

\* C24: readProjectZip admits every such entry whatever its extension: the loop
\* reads it, and when the read ends it pushes the entry's path and text with the
\* tag 'plaintext'.
C24_SpecialFilesAdmittedAsPlaintext ==
    [][AtGoodSpecialEntry =>
          IF InLoop THEN zpc' = "reading" /\ zidx' = zidx
          ELSE files' = Append(files, [path |-> Cur.path, content |-> Cur.content,
                                       language |-> "plaintext"])]_vars

\* a Makefile below a directory whose name holds a '.' has been returned
C24_Witness ==
    /\ Returned
    /\ \E i \in 1..Len(uploadedFiles) :
          /\ uploadedFiles[i].path = <<"a", ".", "d", "/", "Makefile">>
          /\ uploadedFiles[i].language = "plaintext"

\* the path with one leading '/' removed when it starts with '/'
WithoutOneLeadingSlash(path) ==
    IF path # <<>> /\ Head(path) = "/" THEN Tail(path) ELSE path

\* the entry of the delivered archive at the place of file i
EntryFor(i) ==
    LET k == IndexOfPath(file.entries, WithoutOneLeadingSlash(file.source[i].path)) IN
    IF k = 0 THEN DirEntry(<<>>) ELSE file.entries[k]

\* the last file of the list that is written at the place of file i
LastAtPlaceOf(i) ==
    CHOOSE j \in i..Len(file.source) :
        /\ WithoutOneLeadingSlash(file.source[j].path)
               = WithoutOneLeadingSlash(file.source[i].path)
        /\ \A l \in (j + 1)..Len(file.source) :
               WithoutOneLeadingSlash(file.source[l].path)
                  # WithoutOneLeadingSlash(file.source[i].path)

DeliveredName == file.name = file.projectName \o <<"-blueprint", ".", "zip">>

\* C25 as stated: the archive downloadProjectZip delivers is named
\* <projectName>-blueprint.zip and holds, for each file, a text entry at the
\* file's path without one leading '/', whose content is the file's content.
C25_EachFileWrittenWithItsContent ==
    file.exported =>
        /\ DeliveredName
        /\ \A i \in 1..Len(file.source) :
              /\ ~EntryFor(i).dir
              /\ EntryFor(i).content = file.source[i].content

\* C25 amended: the archive is named <projectName>-blueprint.zip and holds, for
\* each file, a text entry at the file's path without one leading '/'; its
\* content is that of the last file of the list written at that place, which
\* is the file itself when no later file has the same place.
C25_EachFileWrittenLastWins ==
    file.exported =>
        /\ DeliveredName
        /\ \A i \in 1..Len(file.source) :
              /\ ~EntryFor(i).dir
              /\ EntryFor(i).path = WithoutOneLeadingSlash(file.source[i].path)
              /\ EntryFor(i).content = file.source[LastAtPlaceOf(i)].content

\* two files were written, one of them with two leading '/', at two places
C25_Witness ==
    /\ file.exported
    /\ Len(file.source) = 2
    /\ file.source[1].path = <<"/", "/", "a", ".", "ts">>
    /\ file.source[2].path = <<"src", "/", "a", ".", "ts">>
    /\ file.source[1].content # file.source[2].content

PathsOf(fs) == [i \in 1..Len(fs) |-> fs[i].path]

\* ps is qs with some of its elements left out
RECURSIVE IsSubsequence(_, _)
IsSubsequence(ps, qs) ==
    IF ps = <<>> THEN TRUE
    ELSE IF qs = <<>> THEN FALSE
    ELSE IF Head(ps) = Head(qs) THEN IsSubsequence(Tail(ps), Tail(qs))
    ELSE IsSubsequence(ps, Tail(qs))

\* C26: readProjectZip reads one entry at a time in the order of the archive: a
\* read starts only when no read is outstanding, on the entry the loop is at;
\* the loop moves on, by one entry, only when that read has ended; a file is
\* added only at the end of the read of its entry, at the back of the list; so
\* the list is at every moment a subsequence of the entries passed so far.
C26_ReadsOneAtATimeInOrder ==
    /\ [][/\ zpc' = "reading" => (zpc = "loop" /\ zidx' = zidx)
          /\ zpc = "reading" => (zpc' = "loop" /\ zidx' = zidx + 1)
          /\ (zpc \in {"loop", "reading"} /\ files' # files)
                => /\ zpc = "reading"
                   /\ Len(files') = Len(files) + 1
                   /\ files'[Len(files')].path = Cur.path
                   /\ SubSeq(files', 1, Len(files)) = files]_vars
    /\ [](zpc \in {"loop", "reading"}
            => IsSubsequence(PathsOf(files),
                             PathsOf(SubSeq(file.entries, 1, zidx - 1))))
    /\ [](Returned => IsSubsequence(PathsOf(uploadedFiles), PathsOf(file.entries)))

\* two files were returned from an archive in which an unreadable entry lies
\* between them
C26_Witness ==
    /\ Returned
    /\ file.entries = FailureArchive
    /\ PathsOf(uploadedFiles) = <<<<"b", ".", "md">>, <<"Makefile">>>>

(***************************************************************************)
(* Claims about requests, loading and storage of the App                   *)
(***************************************************************************)
\* C22: at most one Generate/Enhance request is in flight at any time, and
\* while isLoading is true no step starts another request, whatever the order
\* of submissions, view changes and completions.
C22_AtMostOneRequestInFlight ==
    [][/\ requests' <= 1
       /\ isLoading => requests' <= requests]_vars

\* a request is in flight with the forms on screen, after an earlier request
\* has completed
C22_Witness ==
    /\ requests = 1 /\ isLoading /\ InFlight
    /\ currentView = "home"
    /\ history.isArray /\ Len(history.items) >= 1

\* the history a mount reads from the stored item
HistoryHeldIn(saved) == LoadedHistory(saved, ListOf(<<>>))

\* C27: when the effects of the mount have run, storage holds the history it
\* held before the mount, whatever history and settings were stored.
C27_MountKeepsStoredHistory ==
    [][(apc = "mounting" /\ apc' = "running")
          => HistoryHeldIn(storage'.history) = HistoryHeldIn(loaded.history)]_vars

\* C28: while autoSave is on, storage holds the in-memory history after every
\* change of the list (success, deletion) and its save effect; while autoSave is
\* off, a change of the list leaves the stored history as it was.
C28_AutoSaveKeepsStorageInStep ==
    /\ [](Running /\ settings.autoSave => storage.history = Stringified(history))
    /\ [][(Running /\ apc' = "running" /\ history' # history)
            => IF settings.autoSave
               THEN storage'.history = Stringified(history')
               ELSE storage'.history = storage.history]_vars

\* autoSave was turned off with one item stored, then a request succeeded: the
\* list holds two items, storage still the one
C28_Witness ==
    /\ Running /\ ~settings.autoSave
    /\ history.isArray /\ Len(history.items) = 2
    /\ storage.history = SavedItems(<<history.items[2]>>)
    /\ rpc = "Success"

C30_NoBlueprintWhileLoading ==
    /\ [](isLoading => blueprint.null)
    /\ [][(blueprint' # blueprint /\ ~blueprint'.null)
              => \/ requests' < requests
                 \/ ~isLoading /\ currentView = "history"]_vars

====
